---------------------------- MODULE Spec2Model ----------------------------
(***************************************************************************)
(* A model of cairosvg/surface/__init__.py: the Surface constructor, the   *)
(* viewport fit (set_context_size), the recursive tree walk (draw) and the *)
(* multi-page root walk (MultipageSurface.draw_root).                      *)
(*                                                                         *)
(* Numbers are exact rationals <<n, d>> in lowest terms with d > 0: the    *)
(* program's floats are modelled without rounding error.  The drawing      *)
(* backend (cairo) is modelled by its documented effect on the current     *)
(* transformation matrix and on the stack of saved states, and every call  *)
(* the walker makes on it is appended to a call log.                       *)
(***************************************************************************)
EXTENDS Integers, Sequences, FiniteSets, TLC

(***************************************************************************)
(* Bounds of the model.                                                    *)
(***************************************************************************)
\* the largest number of nodes of a document of the walk family
MaxNodes == 4
\* widths and heights of the size family are k/4 for k in 0..MaxQuarter
MaxQuarter == 7
\* the largest number of tokens between the parentheses of a fragment
MaxArgs == 7

(***************************************************************************)
(* Exact rational arithmetic.                                              *)
(***************************************************************************)
Abs(i) == IF i < 0 THEN -i ELSE i

RECURSIVE Gcd(_, _)
Gcd(a, b) == IF b = 0 THEN a ELSE Gcd(b, a % b)

QNorm(n, d) ==
    LET g == Gcd(Abs(n), Abs(d))
        s == IF d < 0 THEN -1 ELSE 1
    IN  <<(s * n) \div g, (s * d) \div g>>

Q(i) == <<i, 1>>
QAdd(p, q) == QNorm(p[1] * q[2] + q[1] * p[2], p[2] * q[2])
QNeg(p) == <<-p[1], p[2]>>
QSub(p, q) == QAdd(p, QNeg(q))
QMul(p, q) == QNorm(p[1] * q[1], p[2] * q[2])
\* only used with q # 0: the callers raise ZeroDivisionError first
QDiv(p, q) == QNorm(p[1] * q[2], p[2] * q[1])
QLess(p, q) == p[1] * q[2] < q[1] * p[2]
QZero(p) == p[1] = 0

\* int(): truncation toward zero (PNGSurface._create_surface)
QTrunc(p) == IF p[1] >= 0 THEN p[1] \div p[2] ELSE -((-p[1]) \div p[2])
\* round(): to the nearest integer, a tie going to the even neighbour
QRound(p) ==
    LET f == p[1] \div p[2]
        r == QSub(p, Q(f))
    IN  IF QLess(r, <<1, 2>>) THEN f
        ELSE IF QLess(<<1, 2>>, r) THEN f + 1
        ELSE IF f % 2 = 0 THEN f ELSE f + 1

(***************************************************************************)
(* The backend's current transformation matrix <<xx, yx, xy, yy, x0, y0>>: *)
(* a user point (x, y) is drawn at (xx*x + xy*y + x0, yx*x + yy*y + y0).   *)
(***************************************************************************)
Identity == <<Q(1), Q(0), Q(0), Q(1), Q(0), Q(0)>>

\* context.translate(tx, ty): the new user origin is the old point (tx, ty)
MTranslate(m, tx, ty) ==
    <<m[1], m[2], m[3], m[4],
      QAdd(QAdd(QMul(m[1], tx), QMul(m[3], ty)), m[5]),
      QAdd(QAdd(QMul(m[2], tx), QMul(m[4], ty)), m[6])>>

\* context.scale(sx, sy): the user axes are scaled
MScale(m, sx, sy) ==
    <<QMul(m[1], sx), QMul(m[2], sx), QMul(m[3], sy), QMul(m[4], sy), m[5], m[6]>>

\* cos and sin of math.radians(v) for v a whole number of quarter turns
CosDeg(v) == CASE v % 360 = 0 -> Q(1) [] v % 360 = 180 -> Q(-1) [] OTHER -> Q(0)
SinDeg(v) == CASE v % 360 = 90 -> Q(1) [] v % 360 = 270 -> Q(-1) [] OTHER -> Q(0)

\* context.rotate(math.radians(v)): the user axes are rotated
MRotate(m, v) ==
    LET c == CosDeg(v)
        s == SinDeg(v)
    IN  <<QAdd(QMul(m[1], c), QMul(m[3], s)), QAdd(QMul(m[2], c), QMul(m[4], s)),
          QSub(QMul(m[3], c), QMul(m[1], s)), QSub(QMul(m[4], c), QMul(m[2], s)),
          m[5], m[6]>>

\* math.radians(v), with pi taken as 355/113
Radians(v) == QMul(Q(v), <<355, 113 * 180>>)

\* the point the matrix m maps the user point (x, y) to
MapX(m, x, y) == QAdd(QAdd(QMul(m[1], x), QMul(m[3], y)), m[5])
MapY(m, x, y) == QAdd(QAdd(QMul(m[2], x), QMul(m[4], y)), m[6])

(***************************************************************************)
(* The parsed document.  A document is a sequence of nodes in document     *)
(* (pre-)order: node 1 is the root, and the parent of every other node is  *)
(* an earlier node.  An absent attribute is None (strings) or <<>>         *)
(* (numbers); a transform attribute is the sequence of its ")"-separated   *)
(* fragments, each the set of keywords its text contains and the numeric   *)
(* tokens between its parentheses.                                         *)
(***************************************************************************)
None == "None"

DefaultNode ==
    [tag |-> "g", parent |-> 0, root |-> FALSE,
     display |-> None, visibility |-> None,
     fill |-> None, stroke |-> None, fill_rule |-> None,
     stroke_width |-> <<>>, opacity |-> <<>>,
     fill_opacity |-> <<>>, stroke_opacity |-> <<>>,
     linecap |-> None, linejoin |-> None, miterlimit |-> <<>>,
     transform |-> <<>>, x |-> Q(0), y |-> Q(0),
     tangents |-> <<"unset">>, pending_markers |-> <<"unset">>,
     width |-> Q(4), height |-> Q(2), viewbox |-> <<>>]

\* the tags with a geometry builder, and those of them that build a path
TAGS == {"svg", "path", "rect", "text"}
PATH_TAGS == {"path", "rect"}

\* the children of node n, in document order
Children(t, n) == {c \in 1..Len(t) : t[c].parent = n}

RECURSIVE SetToSeq(_)
SetToSeq(S) ==
    IF S = {} THEN <<>>
    ELSE LET m == CHOOSE a \in S : \A b \in S : a <= b
         IN  <<m>> \o SetToSeq(S \ {m})

ChildSeq(t, n) == SetToSeq(Children(t, n))

\* n is d or below d
RECURSIVE InSubtree(_, _, _)
InSubtree(t, n, d) ==
    IF n = d THEN TRUE
    ELSE IF n = 0 THEN FALSE
    ELSE InSubtree(t, t[n].parent, d)

\* n is strictly below d
Descendant(t, n, d) == n # d /\ InSubtree(t, n, d)

(***************************************************************************)
(* The transform attribute (draw, the loop over the fragments).            *)
(***************************************************************************)
\* the keywords, in the order the loop tries them
TTYPES == <<"scale", "translate", "matrix", "rotate", "skewX", "skewY">>

\* the first keyword the fragment's text contains, None when it holds none:
\* once a keyword matched, the text is consumed and no later keyword matches
Detect(frag) ==
    IF \A i \in 1..Len(TTYPES) : TTYPES[i] \notin frag.kws THEN None
    ELSE TTYPES[CHOOSE i \in 1..Len(TTYPES) :
                   /\ TTYPES[i] \in frag.kws
                   /\ \A j \in 1..(i - 1) : TTYPES[j] \notin frag.kws]

\* the values the while loop collects: text with no token still yields one
\* split, and size("") is 0
Values(frag) == IF frag.args = <<>> THEN <<0>> ELSE frag.args

\* one call on the backend, as the call log records it
Call(op, node, frag, vals, str) ==
    [op |-> op, node |-> node, frag |-> frag, vals |-> vals, str |-> str]

QSeq(vals) == [i \in 1..Len(vals) |-> Q(vals[i])]

\* cairo.Matrix(*values): a missing argument keeps the identity's entry,
\* more than six arguments are a TypeError
MatrixOf(vals) == [i \in 1..6 |-> IF i <= Len(vals) THEN Q(vals[i]) ELSE Identity[i]]

\* a set_matrix that composes the new matrix with the current one
SetMatrixCompose(m, new) ==
    <<QAdd(QMul(m[1], new[1]), QMul(m[3], new[2])),
      QAdd(QMul(m[2], new[1]), QMul(m[4], new[2])),
      QAdd(QMul(m[1], new[3]), QMul(m[3], new[4])),
      QAdd(QMul(m[2], new[3]), QMul(m[4], new[4])),
      MapX(m, new[5], new[6]), MapY(m, new[5], new[6])>>

\* context.set_matrix(matrix) on the current matrix m
SetMatrix(m, new) == new

\* a single value completed with the identity's value instead of duplicated
PairPadded(vals) == IF Len(vals) = 1 THEN vals \o <<1>> ELSE vals

\* values = 2 * values when a single value is given
Pair(vals) == IF Len(vals) = 1 THEN vals \o vals ELSE vals

\* a fragment applied to the matrix m: the new matrix, or the exception
\* (ok = FALSE) python raises on a call with the wrong number of arguments
ApplyFragment(m, frag) ==
    LET ttype == Detect(frag)
        vals == Values(frag)
    IN  CASE ttype = None -> [ok |-> TRUE, m |-> m, op |-> None, vals |-> <<>>]
          [] ttype = "matrix" ->
                IF Len(vals) > 6
                THEN [ok |-> FALSE, m |-> m, op |-> None, vals |-> <<>>]
                ELSE [ok |-> TRUE, m |-> SetMatrix(m, MatrixOf(vals)), op |-> "set_matrix",
                      vals |-> MatrixOf(vals)]
          [] ttype = "rotate" ->
                [ok |-> TRUE, m |-> MRotate(m, vals[1]), op |-> "rotate",
                 vals |-> <<Q(vals[1])>>]
          [] ttype = "skewX" ->
                [ok |-> TRUE,
                 m |-> <<m[1], m[2], QAdd(m[3], Radians(vals[1])), m[4], m[5], m[6]>>,
                 op |-> "set_matrix",
                 vals |-> <<m[1], m[2], QAdd(m[3], Radians(vals[1])), m[4], m[5], m[6]>>]
          [] ttype = "skewY" ->
                [ok |-> TRUE,
                 m |-> <<m[1], QAdd(m[2], Radians(vals[1])), m[3], m[4], m[5], m[6]>>,
                 op |-> "set_matrix",
                 vals |-> <<m[1], QAdd(m[2], Radians(vals[1])), m[3], m[4], m[5], m[6]>>]
          [] OTHER ->
                LET v == Pair(vals)
                IN  IF Len(v) # 2
                    THEN [ok |-> FALSE, m |-> m, op |-> None, vals |-> <<>>]
                    ELSE [ok |-> TRUE,
                          m |-> IF ttype = "scale"
                                THEN MScale(m, Q(v[1]), Q(v[2]))
                                ELSE MTranslate(m, Q(v[1]), Q(v[2])),
                          op |-> ttype, vals |-> QSeq(v)]

\* the fragments i.. of node n's transform attribute applied in order to m;
\* the first exception ends the loop
RECURSIVE RunTransform(_, _, _, _)
RunTransform(frags, i, m, n) ==
    IF i > Len(frags) THEN [ok |-> TRUE, m |-> m, calls |-> <<>>]
    ELSE LET r == ApplyFragment(m, frags[i])
         IN  IF ~r.ok THEN [ok |-> FALSE, m |-> m, calls |-> <<>>]
             ELSE LET rest == RunTransform(frags, i + 1, r.m, n)
                      mine == IF r.op = None THEN <<>>
                              ELSE <<Call(r.op, n, i, r.vals, "")>>
                  IN  [ok |-> rest.ok, m |-> rest.m, calls |-> mine \o rest.calls]

(***************************************************************************)
(* The surfaces.                                                           *)
(***************************************************************************)
\* PNGSurface, SVGSurface (single page) and PDFSurface/PSSurface (multi-page)
Kinds == {"png", "svg", "pdf"}
Multipage(k) == k = "pdf"

\* units.DPI and units.UNITS["pt"]: 96 user units and 72 points to the inch
DPI == Q(96)
UNITS_pt == <<1, 72>>
points_per_pixel == QDiv(Q(1), QMul(DPI, UNITS_pt))

device_units_per_user_units(k) == IF k = "png" THEN Q(1) ELSE points_per_pixel

\* helpers.node_format: the node's declared width, height and viewbox
node_format(node) == <<node.width, node.height, node.viewbox>>

\* a raster surface that rounds its size to the nearest integer
CreateSurfaceSizeRound(k, w, h) ==
    IF k = "png" THEN <<Q(QRound(w)), Q(QRound(h))>> ELSE <<w, h>>

\* _create_surface: the (width, height) the surface records for itself
CreateSurfaceSize(k, w, h) ==
    IF k = "png" THEN <<Q(QTrunc(w)), Q(QTrunc(h))>> ELSE <<w, h>>

\* a viewport fit that scales by the smaller ratio and never centres
set_context_size_uncentred(m, width, height, viewbox) ==
    IF viewbox = <<>> THEN [ok |-> TRUE, m |-> m, calls |-> <<>>]
    ELSE IF QZero(viewbox[3]) \/ QZero(viewbox[4])
    THEN [ok |-> FALSE, m |-> m, calls |-> <<>>]
    ELSE LET x_ratio == QDiv(width, viewbox[3])
             y_ratio == QDiv(height, viewbox[4])
             r == IF QLess(y_ratio, x_ratio) THEN y_ratio ELSE x_ratio
         IN  [ok |-> ~QZero(r) \/ x_ratio = y_ratio,
              m |-> MTranslate(MScale(m, r, r), QNeg(viewbox[1]), QNeg(viewbox[2])),
              calls |-> <<>>]

\* set_context_size on the matrix m: the matrix it leaves, the backend calls
\* it made, and ok = FALSE when a division by zero raised
set_context_size(m, width, height, viewbox) ==
    IF viewbox = <<>> THEN [ok |-> TRUE, m |-> m, calls |-> <<>>]
    ELSE LET x == viewbox[1]
             y == viewbox[2]
             x_size == viewbox[3]
             y_size == viewbox[4]
         IN  IF QZero(x_size) \/ QZero(y_size)
             THEN [ok |-> FALSE, m |-> m, calls |-> <<>>]
             ELSE
             LET x_ratio == QDiv(width, x_size)
                 y_ratio == QDiv(height, y_size)
             IN  IF QLess(y_ratio, x_ratio) THEN
                     LET tx == QDiv(QSub(width, QMul(x_size, y_ratio)), Q(2))
                         m1 == MScale(MTranslate(m, tx, Q(0)), y_ratio, y_ratio)
                         c1 == <<Call("translate", 0, 0, <<tx, Q(0)>>, ""),
                                 Call("scale", 0, 0, <<y_ratio, y_ratio>>, "")>>
                     IN  IF QZero(y_ratio)
                         THEN [ok |-> FALSE, m |-> m1, calls |-> c1]
                         ELSE LET ty == QMul(QDiv(QNeg(y), y_ratio), x_ratio)
                              IN  [ok |-> TRUE,
                                   m |-> MTranslate(m1, QNeg(x), ty),
                                   calls |-> Append(c1,
                                       Call("translate", 0, 0, <<QNeg(x), ty>>, ""))]
                 ELSE IF QLess(x_ratio, y_ratio) THEN
                     LET ty == QDiv(QSub(height, QMul(y_size, x_ratio)), Q(2))
                         m1 == MScale(MTranslate(m, Q(0), ty), x_ratio, x_ratio)
                         c1 == <<Call("translate", 0, 0, <<Q(0), ty>>, ""),
                                 Call("scale", 0, 0, <<x_ratio, x_ratio>>, "")>>
                     IN  IF QZero(x_ratio)
                         THEN [ok |-> FALSE, m |-> m1, calls |-> c1]
                         ELSE LET tx == QMul(QDiv(QNeg(x), x_ratio), y_ratio)
                              IN  [ok |-> TRUE,
                                   m |-> MTranslate(m1, tx, QNeg(y)),
                                   calls |-> Append(c1,
                                       Call("translate", 0, 0, <<tx, QNeg(y)>>, ""))]
                 ELSE [ok |-> TRUE,
                       m |-> MTranslate(MScale(m, x_ratio, y_ratio), QNeg(x), QNeg(y)),
                       calls |-> <<Call("scale", 0, 0, <<x_ratio, y_ratio>>, ""),
                                   Call("translate", 0, 0, <<QNeg(x), QNeg(y)>>, "")>>]

(***************************************************************************)
(* The documents the model converts: three families, each varying one      *)
(* aspect of the input.                                                    *)
(***************************************************************************)
Frag(kw, args) == [kws |-> {kw}, args |-> args]

RootNode == [DefaultNode EXCEPT !.tag = "svg", !.root = TRUE]

\* the kinds of node of the walk family
Templates ==
    << [DefaultNode EXCEPT !.stroke = "blue", !.stroke_opacity = <<<<1, 4>>>>,
                           !.transform = <<Frag("translate", <<10, 0>>)>>,
                           !.linecap = "round", !.x = Q(1)],
       [DefaultNode EXCEPT !.tag = "path", !.fill = "red", !.stroke = "blue",
                           !.stroke_width = <<Q(2)>>, !.opacity = <<<<1, 2>>>>,
                           !.fill_rule = "evenodd", !.linejoin = "bevel",
                           !.transform = <<Frag("matrix", <<2, 0, 0, 2, 1, 1>>)>>],
       [DefaultNode EXCEPT !.tag = "rect", !.visibility = "hidden",
                           !.fill_opacity = <<<<1, 2>>>>],
       [DefaultNode EXCEPT !.display = "none", !.fill = "red",
                           !.transform = <<Frag("scale", <<2>>)>>],
       [DefaultNode EXCEPT !.tag = "defs", !.fill = "red", !.stroke = "blue"],
       [DefaultNode EXCEPT !.tag = "svg", !.width = Q(8), !.height = Q(6),
                           !.viewbox = <<Q(0), Q(0), Q(4), Q(4)>>,
                           !.fill = "url(#g)", !.miterlimit = <<Q(2)>>] >>

\* a tree of n nodes: node i > 1 is of kind tm[i] and has the parent p[i] < i
BuildTree(n, p, tm) ==
    [i \in 1..n |-> IF i = 1 THEN RootNode
                    ELSE [Templates[tm[i]] EXCEPT !.parent = p[i]]]

\* the argument lists of the transform family: the first k tokens of a base
Bases == { <<1, 0, 0, 1, 0, 0, 5>>, <<2, 1, -1, 3, 4, 5, 6>>,
           <<90, 3, 0, 1, 7, -2, 1>>, <<0, 1, -1, 0, 10, 0, 1>> }
BaseArgs(b, k) == [i \in 1..k |-> b[((i - 1) % Len(b)) + 1]]
ArgLists == { BaseArgs(b, k) : b \in Bases, k \in 0..MaxArgs }

Frags ==
    { f \in { Frag(TTYPES[i], a) : i \in 1..Len(TTYPES), a \in ArgLists } :
        f.kws = {"rotate"} /\ f.args # <<>> => f.args[1] % 90 = 0 }

InnerTransforms ==
    { <<f>> : f \in Frags }
    \cup { <<Frag("translate", <<3>>), f>> : f \in Frags }
    \cup { <<f, [kws |-> {}, args |-> <<>>]>> : f \in Frags }
    \cup { <<[kws |-> {"translate", "scale"}, args |-> <<2, 3>>]>>,
           <<[kws |-> {"skewX", "rotate"}, args |-> <<90>>]>> }

OuterTransforms ==
    { <<>>, <<Frag("translate", <<10, 0>>)>>, <<Frag("scale", <<2>>)>> }

TransformTree(t1, t2) ==
    << RootNode,
       [DefaultNode EXCEPT !.parent = 1, !.transform = t1],
       [DefaultNode EXCEPT !.tag = "path", !.parent = 2, !.transform = t2] >>

\* the sizes of the size family
Quarters == { QNorm(k, 4) : k \in 0..MaxQuarter }
ViewBoxes ==
    { <<>> } \cup
    { <<Q(x), Q(y), Q(xs), Q(ys)>> :
        x \in {0, 1}, y \in {0, -1}, xs \in {0, 1, 3}, ys \in {1, 2} }

SizeTree(w, h, vb, t) ==
    << [RootNode EXCEPT !.width = w, !.height = h, !.viewbox = vb],
       [DefaultNode EXCEPT !.tag = t, !.parent = 1, !.fill = "red",
                           !.width = h, !.height = w, !.viewbox = vb] >>

(***************************************************************************)
(* The state of one conversion.                                            *)
(***************************************************************************)
VARIABLES
    kind,             \* the surface class
    tree,             \* the document: the nodes, with their attribute maps
    pc,               \* where the conversion stands
    stack,            \* the active calls of draw, the innermost last
    pages,            \* MultipageSurface.draw_root: the pages still to draw
    matrix,           \* the context's current transformation matrix
    saved,            \* the context's stack of saved states
    log,              \* the calls made on the backend and the collaborators
    page_sizes,       \* Surface.page_sizes
    size,             \* (Surface.width, Surface.height), <<>> when None
    parent_node,      \* Surface.parent_node, 0 when None
    old_parent_node,  \* Surface._old_parent_node, 0 when None
    drawn             \* history: the calls of draw made so far, in order

vars == <<kind, tree, pc, stack, pages, matrix, saved, log, page_sizes, size,
          parent_node, old_parent_node, drawn>>

\* the state before Surface.__init__ runs on the parsed document t
InitWith(k, t) ==
    /\ kind = k
    /\ tree = t
    /\ pc = "new"
    /\ stack = <<>>
    /\ pages = <<>>
    /\ matrix = Identity
    /\ saved = <<>>
    /\ log = <<>>
    /\ page_sizes = <<>>
    /\ size = <<>>
    /\ parent_node = 0
    /\ old_parent_node = 0
    /\ drawn = <<>>

\* the walk family: every tree goes through the multi-page surface, the
\* smaller ones through the raster surface as well
WalkInit ==
    \E n \in 1..MaxNodes, k \in {"pdf", "png"} :
        /\ k = "png" => n < MaxNodes
        /\ \E p \in [2..n -> 1..MaxNodes], tm \in [2..n -> 1..Len(Templates)] :
               /\ \A i \in 2..n : p[i] < i
               /\ InitWith(k, BuildTree(n, p, tm))

\* the transform family: a group and a path in it, each with a transform
TransformInit ==
    \E t1 \in OuterTransforms, t2 \in InnerTransforms :
        InitWith("svg", TransformTree(t1, t2))

\* the size family: a root and one child, a path or a page, of varying size
SizeInit ==
    \E k \in Kinds, w \in Quarters, h \in Quarters, vb \in ViewBoxes,
       t \in {"path", "svg"} :
        InitWith(k, SizeTree(w, h, vb, t))

Init == WalkInit \/ TransformInit \/ SizeInit

\* a call of draw(node, stroke_and_fill) about to run its first statement;
\* depth, ctm and parent are history: the context's stack depth and matrix
\* and the surface's parent_node at the call
Frame(n, saf, depth, ctm) ==
    [node |-> n, saf |-> saf, phase |-> "call", kids |-> <<>>,
     depth |-> depth, ctm |-> ctm, parent |-> parent_node]

\* the record of a call in the history of calls
Drawn(n, saf) == [node |-> n, saf |-> saf]

Top == stack[Len(stack)]
Pop == SubSeq(stack, 1, Len(stack) - 1)
SetTop(f) == [stack EXCEPT ![Len(stack)] = f]

\* Surface.__init__ up to the call of draw_root
Construct ==
    /\ pc = "new"
    /\ LET fmt == node_format(tree[1])
           dupu == device_units_per_user_units(kind)
           sz == CreateSurfaceSize(kind, QMul(fmt[1], dupu), QMul(fmt[2], dupu))
           m0 == MScale(Identity, dupu, dupu)
           fit == set_context_size(m0, fmt[1], fmt[2], fmt[3])
           calls == <<Call("create_surface", 0, 0, sz, ""),
                      Call("scale", 0, 0, <<dupu, dupu>>, "")>> \o fit.calls
       IN  /\ size' = sz
           /\ page_sizes' = Append(page_sizes, sz)
           /\ matrix' = fit.m
           /\ IF fit.ok
              THEN /\ log' = log \o calls \o <<Call("move_to", 0, 0, <<Q(0), Q(0)>>, "")>>
                   /\ pc' = "draw_root"
              ELSE /\ log' = log \o calls
                   /\ pc' = "error"
    /\ UNCHANGED <<kind, tree, stack, pages, saved, parent_node, old_parent_node,
                   drawn>>

\* Surface.draw_root
DrawRoot ==
    /\ pc = "draw_root"
    /\ ~Multipage(kind)
    /\ stack' = <<Frame(1, TRUE, Len(saved), matrix)>>
    /\ drawn' = Append(drawn, Drawn(1, TRUE))
    /\ pc' = "draw"
    /\ UNCHANGED <<kind, tree, pages, matrix, saved, log, page_sizes, size,
                   parent_node, old_parent_node>>

\* a root walk that finds no page in any document
svg_children_none(t) == <<>>

\* a root walk that takes every child of the root for a page
svg_children_any(t) == SetToSeq(Children(t, 1))

\* the page containers: the children of the root with the tag svg
svg_children(t) == SetToSeq({c \in Children(t, 1) : t[c].tag = "svg"})

\* MultipageSurface.draw_root up to the loop over the pages, or the call of
\* draw on the whole tree when the root has no page
MultipageDrawRoot ==
    /\ pc = "draw_root"
    /\ Multipage(kind)
    /\ size' = <<>>
    /\ IF svg_children(tree) # <<>>
       THEN /\ pages' = svg_children(tree)
            /\ pc' = "page"
            /\ stack' = stack
            /\ drawn' = drawn
       ELSE /\ pages' = pages
            /\ pc' = "draw"
            /\ stack' = <<Frame(1, TRUE, Len(saved), matrix)>>
            /\ drawn' = Append(drawn, Drawn(1, TRUE))
    /\ UNCHANGED <<kind, tree, matrix, saved, log, page_sizes,
                   parent_node, old_parent_node>>

\* one page of MultipageSurface.draw_root, up to the call of draw(page)
PageBegin ==
    /\ pc = "page"
    /\ pages # <<>>
    /\ LET page == Head(pages)
           fmt == node_format(tree[page])
           dupu == device_units_per_user_units(kind)
           width == QMul(fmt[1], dupu)
           height == QMul(fmt[2], dupu)
           fit == set_context_size(matrix, width, height, fmt[3])
           calls == <<Call("set_size", page, 0, <<width, height>>, ""),
                      Call("save", 0, 0, <<>>, "")>> \o fit.calls
       IN  /\ page_sizes' = Append(page_sizes, <<width, height>>)
           /\ saved' = Append(saved, matrix)
           /\ matrix' = fit.m
           /\ log' = log \o calls
           /\ IF fit.ok
              THEN /\ stack' = <<Frame(page, TRUE, Len(saved) + 1, fit.m)>>
                   /\ drawn' = Append(drawn, Drawn(page, TRUE))
                   /\ pc' = "draw"
              ELSE /\ stack' = stack
                   /\ drawn' = drawn
                   /\ pc' = "error"
    /\ UNCHANGED <<kind, tree, pages, size, parent_node, old_parent_node>>

\* a page loop that emits the page before it restores the context
PageEndCallsEarly(page) ==
    <<Call("show_page", page, 0, <<>>, ""), Call("restore", 0, 0, <<>>, "")>>

\* the backend calls that end a page: context.restore(), cairo.show_page()
PageEndCalls(page) ==
    <<Call("restore", 0, 0, <<>>, ""), Call("show_page", page, 0, <<>>, "")>>

\* the rest of the page once draw(page) has returned: restore and show_page
PageEnd ==
    /\ pc = "draw"
    /\ stack = <<>>
    /\ pages # <<>>
    /\ IF saved = <<>>
       THEN /\ pc' = "error"
            /\ UNCHANGED <<matrix, saved, log, pages>>
       ELSE /\ matrix' = saved[Len(saved)]
            /\ saved' = SubSeq(saved, 1, Len(saved) - 1)
            /\ log' = log \o PageEndCalls(Head(pages))
            /\ pages' = Tail(pages)
            /\ pc' = IF Tail(pages) = <<>> THEN "draw" ELSE "page"
    /\ UNCHANGED <<kind, tree, stack, page_sizes, size, parent_node, old_parent_node,
                   drawn>>

\* a walker without the test for definitions containers
IsDefsNever(node) == FALSE

\* the test draw starts with: a definitions container is not drawn
IsDefs(node) == node.tag = "defs"

\* draw on a defs node: the children go to parse_def and the call returns
DrawDefs ==
    /\ pc = "draw"
    /\ stack # <<>>
    /\ Top.phase = "call"
    /\ IsDefs(tree[Top.node])
    /\ LET kids == ChildSeq(tree, Top.node)
       IN  log' = log \o [i \in 1..Len(kids) |-> Call("parse_def", kids[i], 0, <<>>, "")]
    /\ stack' = Pop
    /\ UNCHANGED <<kind, tree, pc, pages, matrix, saved, page_sizes, size,
                   parent_node, old_parent_node, drawn>>

\* float(node.get(name, 1))
Get(attr, default) == IF attr = <<>> THEN default ELSE attr[1]

\* a walker that leaves the stroke-width attribute as it finds it
StrokeWidthKept(node) == node.stroke_width

\* the stroke-width attribute once draw has looked at it: "1" is written to
\* a path-type node that has none
DefaultStrokeWidth(node) ==
    IF node.tag \in PATH_TAGS /\ node.stroke_width = <<>>
    THEN <<Q(1)>> ELSE node.stroke_width

\* the backend calls of draw(n) from the save to the geometry builder, the
\* calls of the transform loop among them
EnterCalls(n, node, transform_calls) ==
    LET enter == <<Call("save", n, 0, <<>>, ""),
                   Call("move_to", n, 0, <<node.x, node.y>>, "")>>
        cap == IF node.linecap \in {"square", "round"}
               THEN <<Call("set_line_cap", n, 0, <<>>, node.linecap)>> ELSE <<>>
        join == IF node.linejoin \in {"round", "bevel"}
                THEN <<Call("set_line_join", n, 0, <<>>, node.linejoin)>> ELSE <<>>
        miter == <<Call("set_miter_limit", n, 0, <<Get(node.miterlimit, Q(4))>>, "")>>
        geom == IF node.tag \in TAGS
                THEN <<Call("geometry", n, 0, <<>>, node.tag)>> ELSE <<>>
    IN  enter \o transform_calls \o cap \o join \o miter \o geom

\* draw on any other node, from its first statement to the geometry builder
DrawEnter ==
    /\ pc = "draw"
    /\ stack # <<>>
    /\ Top.phase = "call"
    /\ ~IsDefs(tree[Top.node])
    /\ LET n == Top.node
           node == tree[n]
           tr == RunTransform(node.transform, 1, matrix, n)
           enter == <<Call("save", n, 0, <<>>, ""),
                      Call("move_to", n, 0, <<node.x, node.y>>, "")>>
           width == DefaultStrokeWidth(node)
       IN  /\ old_parent_node' = parent_node
           /\ parent_node' = n
           /\ saved' = Append(saved, matrix)
           /\ matrix' = tr.m
           /\ IF tr.ok
              THEN /\ tree' = [tree EXCEPT ![n].tangents = <<None>>,
                                           ![n].pending_markers = <<>>,
                                           ![n].stroke_width = width]
                   /\ log' = log \o EnterCalls(n, node, tr.calls)
                   /\ stack' = SetTop([Top EXCEPT !.phase = "paint"])
                   /\ pc' = pc
              ELSE /\ tree' = [tree EXCEPT ![n].tangents = <<None>>,
                                           ![n].pending_markers = <<>>]
                   /\ log' = log \o enter \o tr.calls
                   /\ stack' = stack
                   /\ pc' = "error"
    /\ UNCHANGED <<kind, pages, page_sizes, size, drawn>>

\* the fill values that hold the reference syntax "url(#"
UrlFills == {"url(#g)"}

\* display and visible, as draw resolves them for a node
Display(node) == node.display # "none"
Visible(node) == Display(node) /\ node.visibility # "hidden"

\* the fill branch of the paint step: a gradient or pattern, or a flat colour
FillCalls(n, node, fill_opacity) ==
    IF node.fill \in UrlFills
    THEN <<Call("gradient_or_pattern", n, 0, <<>>, node.fill)>>
    ELSE (IF node.fill_rule = "evenodd"
          THEN <<Call("set_fill_rule", n, 0, <<>>, "evenodd")>> ELSE <<>>)
         \o <<Call("set_source_fill", n, 0, <<fill_opacity>>,
                   IF node.fill = None THEN "black" ELSE node.fill),
              Call("fill_preserve", n, 0, <<>>, "")>>

\* the stroke branch of the paint step
StrokeCalls(n, node, stroke_opacity) ==
    <<Call("set_line_width", n, 0, <<Get(node.stroke_width, Q(0))>>, ""),
      Call("set_source_stroke", n, 0, <<stroke_opacity>>, node.stroke),
      Call("stroke", n, 0, <<>>, "")>>

\* a paint step that strokes before it fills
PaintCallsStrokeFirst(n, node, stroke_and_fill) ==
    IF stroke_and_fill /\ Visible(node)
    THEN StrokeCalls(n, node, Q(1)) \o FillCalls(n, node, Q(1))
    ELSE <<>>

\* a paint step whose opacity is multiplied by the opacity of the parent
PaintCallsInherited(n, node, stroke_and_fill) ==
    LET above == IF node.parent = 0 THEN Q(1)
                 ELSE Get(tree[node.parent].opacity, Q(1))
        opacity == QMul(above, Get(node.opacity, Q(1)))
        stroke_opacity == QMul(opacity, Get(node.stroke_opacity, Q(1)))
        fill_opacity == QMul(opacity, Get(node.fill_opacity, Q(1)))
    IN  IF stroke_and_fill /\ Visible(node)
        THEN FillCalls(n, node, fill_opacity) \o StrokeCalls(n, node, stroke_opacity)
        ELSE <<>>

\* the calls of the paint step of draw(n, stroke_and_fill)
PaintCalls(n, node, stroke_and_fill) ==
    LET opacity == Get(node.opacity, Q(1))
        stroke_opacity == QMul(opacity, Get(node.stroke_opacity, Q(1)))
        fill_opacity == QMul(opacity, Get(node.fill_opacity, Q(1)))
    IN  IF stroke_and_fill /\ Visible(node)
        THEN FillCalls(n, node, fill_opacity) \o StrokeCalls(n, node, stroke_opacity)
        ELSE <<>>

\* a walker that recurses whatever the display attribute says
RecursedAlways(t, n) == ChildSeq(t, n)

\* a walker that does not recurse into a node it does not paint
RecursedVisible(t, n) == IF Visible(t[n]) THEN ChildSeq(t, n) ELSE <<>>

\* a walker that takes the children from the last to the first
RecursedBackwards(t, n) ==
    IF Display(t[n])
    THEN [i \in 1..Len(ChildSeq(t, n)) |->
              ChildSeq(t, n)[Len(ChildSeq(t, n)) + 1 - i]]
    ELSE <<>>

\* the children draw recurses into
Recursed(t, n) == IF Display(t[n]) THEN ChildSeq(t, n) ELSE <<>>

\* draw: opacities, display and visibility, fill and stroke
DrawPaint ==
    /\ pc = "draw"
    /\ stack # <<>>
    /\ Top.phase = "paint"
    /\ log' = log \o PaintCalls(Top.node, tree[Top.node], Top.saf)
    /\ stack' = SetTop([Top EXCEPT !.phase = "kids", !.kids = Recursed(tree, Top.node)])
    /\ UNCHANGED <<kind, tree, pc, pages, matrix, saved, page_sizes, size,
                   parent_node, old_parent_node, drawn>>

\* a recursion that always asks for paint
ChildFlagTrue(stroke_and_fill) == TRUE

\* the flag draw passes to the child it recurses into
ChildFlag(stroke_and_fill) == stroke_and_fill

\* draw: the call of draw on the next child
DrawChild ==
    /\ pc = "draw"
    /\ stack # <<>>
    /\ Top.phase = "kids"
    /\ Top.kids # <<>>
    /\ stack' = Append(SetTop([Top EXCEPT !.kids = Tail(Top.kids)]),
                       Frame(Head(Top.kids), ChildFlag(Top.saf), Len(saved), matrix))
    /\ drawn' = Append(drawn, Drawn(Head(Top.kids), ChildFlag(Top.saf)))
    /\ UNCHANGED <<kind, tree, pc, pages, matrix, saved, log, page_sizes, size,
                   parent_node, old_parent_node>>

\* a walker that restores for no node
RestoresNever(node) == FALSE

\* whether draw restores the context when it leaves the node
Restores(node) == ~node.root

\* draw: the end of the call, after the last child
DrawExit ==
    /\ pc = "draw"
    /\ stack # <<>>
    /\ Top.phase = "kids"
    /\ Top.kids = <<>>
    /\ IF Restores(tree[Top.node])
       THEN IF saved = <<>>
            THEN /\ pc' = "error"
                 /\ UNCHANGED <<matrix, saved, log, stack, parent_node>>
            ELSE /\ matrix' = saved[Len(saved)]
                 /\ saved' = SubSeq(saved, 1, Len(saved) - 1)
                 /\ log' = Append(log, Call("restore", Top.node, 0, <<>>, ""))
                 /\ parent_node' = old_parent_node
                 /\ stack' = Pop
                 /\ pc' = pc
       ELSE /\ parent_node' = old_parent_node
            /\ stack' = Pop
            /\ UNCHANGED <<matrix, saved, log, pc>>
    /\ UNCHANGED <<kind, tree, pages, page_sizes, size, old_parent_node, drawn>>

\* the constructor returns and convert calls finish()
Finish ==
    /\ pc = "draw"
    /\ stack = <<>>
    /\ pages = <<>>
    /\ log' = log \o (IF kind = "png" THEN <<Call("write_to_png", 0, 0, <<>>, "")>>
                      ELSE <<>>) \o <<Call("finish", 0, 0, <<>>, "")>>
    /\ pc' = "done"
    /\ UNCHANGED <<kind, tree, stack, pages, matrix, saved, page_sizes, size,
                   parent_node, old_parent_node, drawn>>

Next ==
    \/ Construct
    \/ DrawRoot
    \/ MultipageDrawRoot
    \/ PageBegin
    \/ PageEnd
    \/ DrawDefs
    \/ DrawEnter
    \/ DrawPaint
    \/ DrawChild
    \/ DrawExit
    \/ Finish

Spec == Init /\ [][Next]_vars

(***************************************************************************)
(* Calls of draw from a collaborator.  draw is public: a geometry builder  *)
(* (a clip path, a marker, a reference to another node) calls it on a node  *)
(* of its choice with a flag of its choice, and may call it again.          *)
(***************************************************************************)
\* a constructed surface and a document no call of draw was made on yet
CallerInitWith(t) ==
    /\ kind = "svg"
    /\ tree = t
    /\ pc = "caller"
    /\ stack = <<>>
    /\ pages = <<>>
    /\ matrix = Identity
    /\ saved = <<>>
    /\ log = <<>>
    /\ page_sizes = <<>>
    /\ size = <<>>
    /\ parent_node = 0
    /\ old_parent_node = 0
    /\ drawn = <<>>

\* the documents drawn this way: the smaller trees of the walk family and
\* the trees of a group and a path with the outer transforms
CallerInit ==
    \/ \E n \in 1..(MaxNodes - 1) :
          \E p \in [2..n -> 1..MaxNodes], tm \in [2..n -> 1..Len(Templates)] :
              /\ \A i \in 2..n : p[i] < i
              /\ CallerInitWith(BuildTree(n, p, tm))
    \/ \E t1 \in OuterTransforms, t2 \in OuterTransforms :
          CallerInitWith(TransformTree(t1, t2))

\* the collaborator's call draw(n, stroke_and_fill)
CallDraw ==
    /\ pc = "caller"
    /\ \E n \in 1..Len(tree), stroke_and_fill \in BOOLEAN :
          /\ stack' = <<Frame(n, stroke_and_fill, Len(saved), matrix)>>
          /\ drawn' = Append(drawn, Drawn(n, stroke_and_fill))
    /\ pc' = "draw"
    /\ UNCHANGED <<kind, tree, pages, matrix, saved, log, page_sizes, size,
                   parent_node, old_parent_node>>

\* the same call made a second time, once the first has returned
Redraw ==
    /\ pc = "draw"
    /\ stack = <<>>
    /\ drawn # <<>>
    /\ Cardinality({i \in 1..Len(drawn) : drawn[i].node = drawn[1].node}) = 1
    /\ stack' = <<Frame(drawn[1].node, drawn[1].saf, Len(saved), matrix)>>
    /\ drawn' = Append(drawn, drawn[1])
    /\ UNCHANGED <<kind, tree, pc, pages, matrix, saved, log, page_sizes, size,
                   parent_node, old_parent_node>>

NextDraw ==
    \/ CallDraw
    \/ Redraw
    \/ DrawDefs
    \/ DrawEnter
    \/ DrawPaint
    \/ DrawChild
    \/ DrawExit

SpecDraw == CallerInit /\ [][NextDraw]_vars

(***************************************************************************)
(* The properties checked.                                                 *)
(***************************************************************************)
\* the nodes with a given place in the walk
Nodes == 1..Len(tree)
Entries(n) == {i \in 1..Len(log) : log[i].node = n}
Entered(n) == \E i \in Entries(n) : log[i].op = "save"
Returned(n) == \E i \in Entries(n) : log[i].op = "restore"
Active(n) == \E i \in 1..Len(stack) : stack[i].node = n
HasPage == \E c \in Nodes : tree[c].parent = 1 /\ tree[c].tag = "svg"
PageCount == Cardinality({c \in Nodes : tree[c].parent = 1 /\ tree[c].tag = "svg"})

\* a call of draw on a node that is not a defs container returns: the frame
\* on top, past its first phase, is popped
DrawReturns ==
    /\ pc = "draw" /\ pc' = "draw"
    /\ stack # <<>>
    /\ stack' = Pop
    /\ Top.phase = "kids"

\* C1: when draw(n) returns for a non-root node that is not a defs container,
\* the depth of the context's stack of saved states is the depth at the call,
\* for the root it is that depth plus one; and while a call is active the
\* depth is never below the depth at its call.
C1_SaveRestoreBalanced ==
    /\ [](\A i \in 1..Len(stack) : Len(saved) >= stack[i].depth)
    /\ [][DrawReturns =>
            Len(saved') = Top.depth + (IF tree[Top.node].root THEN 1 ELSE 0)]_vars

\* a non-root node with a drawn child has returned to its caller
C1_Witness ==
    \E n \in Nodes :
        /\ n > 1 /\ Returned(n) /\ ~Active(n)
        /\ \E c \in Nodes : tree[c].parent = n /\ Returned(c)

\* C2: a finished multi-page conversion of a document whose root has N >= 1
\* page children leaves exactly N entries in the page-size record.
C2_OneEntryPerPage ==
    (pc = "done" /\ Multipage(kind) /\ HasPage) => Len(page_sizes) = PageCount

\* C3: a finished conversion through a single-page surface, or through the
\* multi-page surface when the root has no page child, leaves exactly one
\* page-size entry; and the record only ever grows by appends.
C3_SinglePageOneEntry ==
    /\ []((pc = "done" /\ (kind \in {"png", "svg"} \/ ~HasPage))
            => Len(page_sizes) = 1)
    /\ [][/\ Len(page_sizes') >= Len(page_sizes)
          /\ \A i \in 1..Len(page_sizes) : page_sizes'[i] = page_sizes[i]]_vars

\* a multi-page conversion of a tree without a page, with children, is done
C3_Witness ==
    /\ pc = "done" /\ kind = "pdf" /\ ~HasPage
    /\ Len(tree) >= 3 /\ Len(page_sizes) = 1

\* the calls that put paint on the canvas or choose its source
PaintOps == {"set_source_fill", "fill_preserve", "set_line_width",
             "set_source_stroke", "stroke", "gradient_or_pattern"}

\* the paint calls made for node n, in the order they were made
PaintSeq(n) ==
    LET IsPaint(e) == e.node = n /\ e.op \in PaintOps
        sel == SelectSeq(log, IsPaint)
    IN  [i \in 1..Len(sel) |-> sel[i].op]

\* the paint step of draw(n) is over
Painted(n) ==
    /\ Entered(n)
    /\ pc # "error"
    /\ \A i \in 1..Len(stack) : stack[i].node = n => stack[i].phase = "kids"

DrawnWith(n, saf) == \E i \in 1..Len(drawn) : drawn[i] = Drawn(n, saf)
WasDrawn(n) == \E i \in 1..Len(drawn) : drawn[i].node = n

\* C4: for a node painted with a flat-colour fill (stroke_and_fill true and
\* the node visible), the paint calls are, in this order: set fill source,
\* fill-preserve, set line width, set stroke source, stroke; the stroke is
\* made whether or not the node has a stroke attribute.
C4_FillBeforeStroke ==
    \A n \in Nodes :
        (/\ Painted(n) /\ DrawnWith(n, TRUE)
         /\ tree[n].display # "none" /\ tree[n].visibility # "hidden"
         /\ tree[n].fill \notin UrlFills)
        => PaintSeq(n) = <<"set_source_fill", "fill_preserve", "set_line_width",
                           "set_source_stroke", "stroke">>

\* a node with a fill and no stroke attribute has been painted
C4_Witness ==
    \E n \in Nodes : /\ Painted(n) /\ tree[n].stroke = None
                     /\ tree[n].fill = "red" /\ Len(PaintSeq(n)) = 5

\* C5: a node with display="none" gets no paint call, and draw is never
\* called on any of its descendants: no call at all is made for them.
C5_DisplayNoneSuppresses ==
    \A n \in Nodes :
        tree[n].display = "none" =>
            /\ PaintSeq(n) = <<>>
            /\ \A d \in Nodes :
                   Descendant(tree, d, n) => ~WasDrawn(d) /\ Entries(d) = {}

\* a display="none" node with a painted-looking child has returned
C5_Witness ==
    \E n \in Nodes :
        /\ tree[n].display = "none" /\ Returned(n) /\ ~Active(n)
        /\ \E d \in Nodes : tree[d].parent = n /\ tree[d].fill = "red"

\* C6: draw on a defs container hands each child once, in document order, to
\* parse_def and does nothing else: no call is made for the container, no
\* node below it is drawn, and no paint call is made for any of them.
C6_DefsNeverPainted ==
    \A n \in Nodes :
        tree[n].tag = "defs" =>
            /\ \A i \in Entries(n) : log[i].op = "parse_def"
            /\ \A d \in Nodes :
                   Descendant(tree, d, n) =>
                       /\ ~WasDrawn(d)
                       /\ \A i \in Entries(d) : log[i].op = "parse_def"
            /\ (WasDrawn(n) /\ ~Active(n)) =>
                   LET IsDef(e) == e.op = "parse_def" /\ tree[e.node].parent = n
                       sel == SelectSeq(log, IsDef)
                   IN  [i \in 1..Len(sel) |-> sel[i].node] = ChildSeq(tree, n)

\* a defs container with two children, one of them with paint attributes,
\* has been visited
C6_Witness ==
    \E n \in Nodes :
        /\ tree[n].tag = "defs" /\ WasDrawn(n) /\ ~Active(n)
        /\ Cardinality(Children(tree, n)) >= 2
        /\ \E d \in Children(tree, n) : tree[d].fill = "red"

\* the number of numeric tokens of the fragment is right for its keyword
WellFormed(frag) ==
    LET ttype == Detect(frag)
        k == Len(frag.args)
    IN  CASE ttype = None -> TRUE
          [] ttype = "matrix" -> k = 6
          [] ttype \in {"rotate", "skewX", "skewY"} -> k = 1
          [] OTHER -> k \in {1, 2}

\* C7: when a node the walker visits has a transform fragment with a wrong
\* number of values for its keyword, the conversion never completes and the
\* fragment is never applied to the matrix, in full or in part.
C7_MalformedTransformFails ==
    \A n \in Nodes :
        (/\ WasDrawn(n) /\ tree[n].tag # "defs"
         /\ \E i \in 1..Len(tree[n].transform) : ~WellFormed(tree[n].transform[i]))
        => /\ pc # "done"
           /\ \A e \in Entries(n) :
                  log[e].frag > 0 => WellFormed(tree[n].transform[log[e].frag])

\* the transform attribute of n ends with a matrix fragment of six values:
\* no later fragment holds a keyword
EndsWithMatrix(n, j) ==
    /\ j \in 1..Len(tree[n].transform)
    /\ tree[n].transform[j].kws = {"matrix"}
    /\ Len(tree[n].transform[j].args) = 6
    /\ \A i \in 1..Len(tree[n].transform) :
           /\ i > j => tree[n].transform[i].kws = {}
           /\ i < j => tree[n].transform[i].kws = {"translate"}

\* C8: once a node's fragment matrix(a,b,c,d,e,f) is applied, the current
\* matrix is exactly (a,b,c,d,e,f), whatever the matrix was before (the base
\* scale, an ancestor's transform, an earlier fragment); and when the visit
\* of a non-root node returns, the matrix is again the one at its call.
C8_MatrixReplaces ==
    /\ [](\A j \in 1..2 :
            (/\ pc = "draw" /\ stack # <<>> /\ Top.phase = "paint"
             /\ EndsWithMatrix(Top.node, j))
            => matrix = QSeq(tree[Top.node].transform[j].args))
    /\ [][(DrawReturns /\ ~tree[Top.node].root) => matrix' = Top.ctm]_vars

\* a parent with translate(10,0) and its child with matrix(1,0,0,1,0,0): the
\* child's matrix is the identity, the saved matrix of the parent is not
C8_Witness ==
    /\ Len(tree) = 3
    /\ tree[2].transform = <<Frag("translate", <<10, 0>>)>>
    /\ tree[3].transform = <<Frag("matrix", <<1, 0, 0, 1, 0, 0>>)>>
    /\ pc = "draw" /\ stack # <<>> /\ Top.node = 3 /\ Top.phase = "paint"
    /\ matrix = Identity
    /\ saved[Len(saved)] # Identity

\* the root declares no viewbox and the raster surface has been created
RasterNoViewbox == kind = "png" /\ pc # "new" /\ tree[1].viewbox = <<>>

\* C9 as stated: the raster canvas and its page-size entry are the declared
\* width and height rounded to the nearest integer.
C9_RasterSizeRounded ==
    RasterNoViewbox =>
        /\ size = <<Q(QRound(tree[1].width)), Q(QRound(tree[1].height))>>
        /\ page_sizes[1] = size

\* i is the whole number of p: i <= p < i + 1
WholePart(i, p) == i[2] = 1 /\ ~QLess(p, i) /\ QLess(p, QAdd(i, Q(1)))

\* C9 as amended: the raster canvas and its page-size entry are the declared
\* width and height with the fraction cut off.
C9_RasterSizeTruncated ==
    RasterNoViewbox =>
        /\ WholePart(size[1], tree[1].width)
        /\ WholePart(size[2], tree[1].height)
        /\ page_sizes[1] = size

\* a raster conversion of a document 7/4 wide is done on a canvas 1 wide
C9_Witness ==
    /\ RasterNoViewbox /\ pc = "done"
    /\ tree[1].width = <<7, 4>> /\ size[1] = Q(1)

\* set_context_size took the matrix pre to the matrix post for the viewport
\* (width, height) and the viewbox vb: what C10 says of the two
FitAsClaimed(pre, post, width, height, vb) ==
    LET x == vb[1]
        y == vb[2]
        x_ratio == QDiv(width, vb[3])
        y_ratio == QDiv(height, vb[4])
        L == QDiv(QSub(width, QMul(vb[3], y_ratio)), Q(2))
    IN  /\ QLess(y_ratio, x_ratio) =>
              /\ MapX(post, x, y) = MapX(pre, L, Q(0))
              /\ MapX(post, QAdd(x, vb[3]), y) = MapX(pre, QSub(width, L), Q(0))
        /\ x_ratio = y_ratio =>
              /\ post[1] = QMul(pre[1], x_ratio)
              /\ post[4] = QMul(pre[4], x_ratio)
              /\ MapX(post, x, y) = MapX(pre, Q(0), Q(0))
              /\ MapY(post, x, y) = MapY(pre, Q(0), Q(0))

\* the page whose viewport has just been fitted
JustFitted == pc = "draw" /\ pages # <<>> /\ Len(stack) = 1 /\ Top.phase = "call"

\* C10: when x_ratio > y_ratio the fitted transform maps the left and right
\* edges of the viewbox to L and width - L, L = (width - x_size*y_ratio)/2;
\* when the ratios are equal the scale is the same on both axes and the
\* origin of the viewbox maps to (0, 0).  Checked of the document's fit in
\* the constructor and of each page's fit.
C10_ViewboxCentred ==
    /\ (pc = "draw_root" /\ tree[1].viewbox # <<>>) =>
           FitAsClaimed(
               <<device_units_per_user_units(kind), Q(0), Q(0),
                 device_units_per_user_units(kind), Q(0), Q(0)>>,
               matrix, tree[1].width, tree[1].height, tree[1].viewbox)
    /\ (JustFitted /\ tree[Top.node].viewbox # <<>>) =>
           FitAsClaimed(
               saved[Len(saved)], matrix,
               QMul(tree[Top.node].width, device_units_per_user_units(kind)),
               QMul(tree[Top.node].height, device_units_per_user_units(kind)),
               tree[Top.node].viewbox)

\* a viewbox narrower than its viewport, not at the origin, has been fitted
\* with a margin
C10_Witness ==
    /\ pc = "draw_root" /\ tree[1].viewbox # <<>>
    /\ tree[1].viewbox[1] # Q(0)
    /\ QLess(QDiv(tree[1].height, tree[1].viewbox[4]),
             QDiv(tree[1].width, tree[1].viewbox[3]))
    /\ QLess(Q(0), matrix[5])

\* node n's transform is one scale or translate fragment (named kw) of k
\* values, possibly followed by a fragment without a keyword
OneFragment(n, kw, k) ==
    LET tr == tree[n].transform
    IN  /\ Len(tr) \in {1, 2}
        /\ tr[1].kws = {kw}
        /\ Len(tr[1].args) = k
        /\ Len(tr) = 2 => tr[2].kws = {}

\* the walker is inside draw(n), past the transform loop
PastTransform(n) ==
    /\ pc = "draw" /\ stack # <<>>
    /\ Top.node = n /\ Top.phase = "paint"

\* the transform loop of draw(n) raised
RaisedIn(n) ==
    /\ pc = "error" /\ stack # <<>>
    /\ Top.node = n /\ Top.phase = "call"

\* C11: a scale or translate fragment with one value v acts as the same
\* fragment with the two values v, v: the backend operation is called with
\* the pair (v, v) and the matrix after it is the matrix at the call scaled
\* (translated) by v on both axes; with two values a, b the operation is
\* called with (a, b) unchanged; neither form raises.
C11_SingleValueDuplicated ==
    \A n \in Nodes : \A kw \in {"scale", "translate"} : \A k \in {1, 2} :
        OneFragment(n, kw, k) =>
            LET a == tree[n].transform[1].args
                x == Q(a[1])
                y == IF k = 1 THEN Q(a[1]) ELSE Q(a[2])
            IN  /\ ~RaisedIn(n)
                /\ PastTransform(n) =>
                     /\ matrix = IF kw = "scale" THEN MScale(Top.ctm, x, y)
                                 ELSE MTranslate(Top.ctm, x, y)
                     /\ \E i \in Entries(n) :
                            /\ log[i].frag = 1 /\ log[i].op = kw
                            /\ log[i].vals = <<x, y>>

\* a scale(2) under an outer translate has scaled both axes by 2
C11_Witness ==
    \E n \in Nodes :
        /\ OneFragment(n, "scale", 1) /\ tree[n].transform[1].args = <<2>>
        /\ PastTransform(n)
        /\ Top.ctm # Identity
        /\ matrix = MScale(Top.ctm, Q(2), Q(2))
        /\ matrix # MScale(Top.ctm, Q(2), Q(1))

\* C12: when draw(n) returns for a node that is not a defs container, the
\* surface's parent_node is the value it had when draw(n) was called, also
\* for a node with children and for a node that follows a sibling with
\* children; so when the conversion is over parent_node is the initial
\* empty value again.
C12_ParentNodeRestored ==
    /\ [][DrawReturns => parent_node' = Top.parent]_vars
    /\ [](pc = "done" => parent_node = 0)

\* the page containers of the document, by the tree alone
IsPage(p) == p \in Nodes /\ tree[p].parent = 1 /\ tree[p].tag = "svg"

\* the positions in the log of the calls op made for node p
Idx(op, p) == {i \in 1..Len(log) : log[i].op = op /\ log[i].node = p}

\* the calls of one page, the page break at position i of the log: the
\* resize at some j < i is followed by a save; the viewport fit comes next,
\* then the calls of the page's subtree and nothing else; the restore is
\* the call before the page break
PageInOrder(p, i) ==
    \E j \in Idx("set_size", p) :
        /\ j + 1 < i - 1
        /\ log[j + 1].op = "save" /\ log[j + 1].node = 0
        /\ log[i - 1].op = "restore" /\ log[i - 1].node = 0
        /\ \A k \in (j + 2)..(i - 2) :
              IF log[k].node = 0
              THEN /\ log[k].op \in {"translate", "scale"}
                   /\ \A l \in (j + 2)..k : log[l].node = 0
              ELSE InSubtree(tree, log[k].node, p)
        /\ \A k \in 1..Len(log) :
              InSubtree(tree, log[k].node, p) => j <= k /\ k <= i
        /\ \E k \in (j + 2)..(i - 2) : log[k].op = "save" /\ log[k].node = p

\* C13: in a multi-page conversion of a document with N page containers,
\* every page is: resize, save, viewport fit, the draw of the page's subtree,
\* restore, page break, in this order; the page break of a page comes after
\* every call of that page and the next call, if any, is the resize of the
\* next page in document order; a completed conversion has made exactly N
\* page breaks; and the depth of the context's stack of saved states after a
\* page break is the depth before the page's resize.
C13_PageOrder ==
    (Multipage(kind) /\ HasPage) =>
        /\ \A p \in Nodes :
              /\ Cardinality(Idx("show_page", p)) <= 1
              /\ Cardinality(Idx("set_size", p)) <= 1
              /\ Idx("show_page", p) \cup Idx("set_size", p) # {} => IsPage(p)
              /\ \A i \in Idx("show_page", p) :
                    /\ PageInOrder(p, i)
                    /\ i < Len(log) /\ log[i + 1].op # "finish" =>
                          /\ log[i + 1].op = "set_size"
                          /\ log[i + 1].node > p
                          /\ \A q \in Nodes :
                                IsPage(q) /\ q < log[i + 1].node =>
                                    \E l \in Idx("show_page", q) : l <= i
              /\ \A j \in Idx("set_size", p) : \A q \in Nodes :
                    IsPage(q) /\ q < p => \E l \in Idx("show_page", q) : l < j
        /\ pc = "done" =>
              Cardinality({i \in 1..Len(log) : log[i].op = "show_page"}) = PageCount
        /\ pc = "page" => saved = <<>>
        /\ (log # <<>> /\ log[Len(log)].op = "show_page") => saved = <<>>

\* a conversion of two pages is over, the second page following a page
\* break and holding a child that was stroked
C13_Witness ==
    /\ Multipage(kind) /\ pc = "done"
    /\ PageCount = 2
    /\ Cardinality({i \in 1..Len(log) : log[i].op = "show_page"}) = 2
    /\ \E p \in Nodes : \E q \in Nodes : \E c \in Nodes :
          /\ IsPage(p) /\ IsPage(q) /\ p < q
          /\ tree[c].parent = q
          /\ Idx("stroke", c) # {}

\* the calls of draw made on the children of n, in the order they were made
ChildCalls(n) ==
    LET IsChild(e) == tree[e.node].parent = n
    IN  SelectSeq(drawn, IsChild)

\* the call of draw on n is over and did not raise
Finished(n) == WasDrawn(n) /\ ~Active(n) /\ pc # "error"

\* node n is drawn, hidden and not removed from display
HiddenShown(n) ==
    /\ tree[n].tag # "defs"
    /\ tree[n].visibility = "hidden"
    /\ tree[n].display # "none"
    /\ WasDrawn(n)

\* C14: a node n with visibility "hidden" whose display is not "none" gets
\* no fill and no stroke call; draw is still called on each child of n, in
\* document order, with the flag draw(n) was called with; and a child with
\* no visibility attribute of its own is painted like any other node.
C14_HiddenNotInherited ==
    \A n \in Nodes :
        HiddenShown(n) =>
            /\ PaintSeq(n) = <<>>
            /\ Finished(n) =>
                  /\ Len(ChildCalls(n)) = Cardinality({c \in Nodes : tree[c].parent = n})
                  /\ \A i \in 1..Len(ChildCalls(n)) :
                        /\ DrawnWith(n, ChildCalls(n)[i].saf)
                        /\ \A j \in 1..(i - 1) :
                              ChildCalls(n)[j].node < ChildCalls(n)[i].node
            /\ \A c \in Nodes :
                  (/\ tree[c].parent = n
                   /\ tree[c].tag # "defs"
                   /\ tree[c].visibility = None /\ tree[c].display # "none"
                   /\ (Finished(n) \/ Painted(c))) =>
                        /\ DrawnWith(c, TRUE)
                        /\ Len(PaintSeq(c)) >= 4
                        /\ PaintSeq(c)[Len(PaintSeq(c))] = "stroke"

\* a hidden node has returned without a paint call after its two children
\* were drawn, the first of them filled and stroked
C14_Witness ==
    \E n \in Nodes : \E c \in Nodes : \E d \in Nodes :
        /\ HiddenShown(n) /\ Finished(n) /\ Returned(n)
        /\ PaintSeq(n) = <<>>
        /\ c < d /\ tree[c].parent = n /\ tree[d].parent = n
        /\ tree[c].tag = "path" /\ "fill_preserve" \in {PaintSeq(c)[i] : i \in 1..Len(PaintSeq(c))}
        /\ WasDrawn(d)

\* the number of calls op made for node n, and of calls of draw on n
Count(op, n) == Cardinality(Idx(op, n))
Calls(n) == Cardinality({i \in 1..Len(drawn) : drawn[i].node = n})

\* C15: when draw is called on a node with stroke_and_fill false, no fill
\* rule, paint source, fill-preserve, line width, stroke or gradient call
\* is made for the node or for any node below it, while every node visited
\* is still saved and restored, has its transform applied and its geometry
\* builder called; and every recursive call of draw gets the flag of the
\* call that made it.
C15_FlagThreaded ==
    /\ \A i \in 1..Len(drawn) : drawn[i].saf = drawn[1].saf
    /\ (drawn # <<>> /\ ~drawn[1].saf) =>
          /\ \A i \in 1..Len(log) : log[i].op \notin PaintOps \cup {"set_fill_rule"}
          /\ \A n \in Nodes :
                (tree[n].tag # "defs" /\ Finished(n)) =>
                    /\ Count("save", n) = Calls(n)
                    /\ Count("restore", n) = IF tree[n].root THEN 0 ELSE Calls(n)
                    /\ Count("geometry", n) =
                          IF tree[n].tag \in {"svg", "path", "rect", "text"}
                          THEN Calls(n) ELSE 0
                    /\ Cardinality({i \in Entries(n) : log[i].frag > 0}) =
                          Calls(n) * Len(tree[n].transform)
          /\ \A n \in Nodes : \A c \in Nodes :
                (/\ tree[c].parent = n /\ Finished(n)
                 /\ tree[n].tag # "defs" /\ tree[n].display # "none") =>
                    Calls(c) = Calls(n)

\* draw(n, false) has returned for a group with a transform whose child is
\* a path with a red fill: the path was saved, transformed, built and
\* restored, and nothing was painted
C15_Witness ==
    /\ drawn # <<>> /\ ~drawn[1].saf
    /\ stack = <<>>
    /\ \E n \in Nodes : \E c \in Nodes :
          /\ drawn[1].node = n /\ tree[c].parent = n
          /\ tree[n].transform # <<>>
          /\ tree[c].tag = "path" /\ tree[c].fill = "red"
          /\ Count("geometry", c) >= 1 /\ Count("restore", c) >= 1
          /\ Count("set_matrix", c) >= 1
    /\ \A i \in 1..Len(log) : log[i].op \notin PaintOps

\* the step is draw(n) running from its first statement to the geometry
\* builder without raising
EntersNode(n) ==
    /\ pc = "draw" /\ pc' = "draw"
    /\ stack # <<>>
    /\ Top.node = n /\ Top.phase = "call"
    /\ tree[n].tag # "defs"

\* C16: draw writes the stroke width "1" to a path-type node whose
\* stroke-width attribute is absent or empty, before the geometry builder
\* and the paint step run, so the line width its stroke is made with is 1;
\* the attribute of a path-type node that has one, and of any other node, is
\* never changed; and a second visit of the node changes nothing further.
C16_DefaultStrokeWidth ==
    /\ [][\A n \in Nodes :
            tree'[n].stroke_width =
                IF /\ EntersNode(n)
                   /\ tree[n].tag \in {"path", "rect"}
                   /\ tree[n].stroke_width = <<>>
                THEN <<Q(1)>>
                ELSE tree[n].stroke_width]_vars
    /\ [](\A n \in Nodes :
            /\ (tree[n].tag \in {"path", "rect"} /\ Count("geometry", n) > 0) =>
                  tree[n].stroke_width # <<>>
            /\ \A i \in Idx("set_line_width", n) :
                  tree[n].tag \in {"path", "rect"} =>
                      log[i].vals = tree[n].stroke_width)

\* a path without a stroke-width attribute was drawn twice and stroked
\* twice with the line width 1, next to a group that still has none
C16_Witness ==
    \E n \in Nodes : \E g \in Nodes :
        /\ tree[n].tag = "path" /\ Calls(n) = 2 /\ Finished(n)
        /\ tree[n].stroke_width = <<Q(1)>>
        /\ Count("set_line_width", n) = 2
        /\ \A i \in Idx("set_line_width", n) : log[i].vals = <<Q(1)>>
        /\ tree[g].tag = "g" /\ Finished(g) /\ tree[g].stroke_width = <<>>

\* the nodes of the subtrees rooted at the siblings S, in document pre-order
RECURSIVE PreOrderOf(_, _)
PreOrderOf(t, S) ==
    IF S = {} THEN <<>>
    ELSE LET c == CHOOSE a \in S : \A b \in S : a <= b
         IN  <<c>> \o PreOrderOf(t, {d \in 1..Len(t) : t[d].parent = c})
                   \o PreOrderOf(t, S \ {c})

\* n is not a defs container and no node above n is a defs container or is
\* removed from display
Visitable(n) ==
    /\ tree[n].tag # "defs"
    /\ \A a \in Nodes :
          Descendant(tree, n, a) =>
              tree[a].tag # "defs" /\ tree[a].display # "none"

\* the nodes a frame was saved for, in the order of the saves
SaveSeq ==
    LET IsSave(e) == e.op = "save" /\ e.node > 0
        sel == SelectSeq(log, IsSave)
    IN  [i \in 1..Len(sel) |-> sel[i].node]

\* the nodes the claim says are visited, in document pre-order
VisitOrder == SelectSeq(PreOrderOf(tree, {1}), Visitable)

\* a bound on the steps the conversion has left: 0 once it has returned or
\* raised; else what the constructor and draw_root have left, four steps
\* for every node draw was not called on, the steps left in the active
\* calls, and one step for every page still to end
PcRank ==
    CASE pc = "new" -> Len(tree) + 3
      [] pc = "draw_root" -> Len(tree) + 2
      [] OTHER -> 1

PhaseRank(f) == CASE f.phase = "call" -> 3 [] f.phase = "paint" -> 2 [] OTHER -> 1

RECURSIVE StackRank(_)
StackRank(s) == IF s = <<>> THEN 0 ELSE PhaseRank(Head(s)) + StackRank(Tail(s))

Remaining ==
    IF pc \in {"done", "error"} THEN 0
    ELSE PcRank + 4 * (Len(tree) - Len(drawn)) + StackRank(stack) + Len(pages)

\* some step of the conversion can be taken: the guards of the constructor,
\* of the two draw_root, of the page loop and of the steps of draw
CanStep ==
    \/ pc = "new"
    \/ pc = "draw_root"
    \/ pc = "page" /\ pages # <<>>
    \/ pc = "draw" /\ stack = <<>>
    \/ pc = "draw" /\ stack # <<>> /\ Top.phase \in {"call", "paint", "kids"}

\* C17: draw(root) terminates (it returns or raises: it is never stuck, and
\* every step lowers a bound on the steps left) and saves a frame, once
\* and in document pre-order, for exactly the nodes that are not a defs
\* container and have no ancestor that is a defs container or has display
\* "none"; a node whose tag has no geometry builder is visited and its
\* children are walked like any other.
C17_VisitsPreOrder ==
    /\ [](WasDrawn(1) =>
            /\ Len(SaveSeq) <= Len(VisitOrder)
            /\ SaveSeq = SubSeq(VisitOrder, 1, Len(SaveSeq))
            /\ pc = "done" => SaveSeq = VisitOrder)
    /\ [](Remaining \in Nat)
    /\ [](pc \notin {"done", "error"} => CanStep)
    /\ [][Remaining' < Remaining]_vars

\* draw(root) is over on a tree where the second child of the root comes
\* after a grandchild, a group without a geometry builder has a visited
\* child, and one node is left out
C17_Witness ==
    /\ WasDrawn(1) /\ pc = "done"
    /\ Len(tree) = 4
    /\ tree[2].parent = 1 /\ tree[2].tag = "g" /\ tree[2].display # "none"
    /\ tree[3].parent = 1 /\ tree[4].parent = 2
    /\ SaveSeq = <<1, 2, 4>>

\* an opacity attribute as a number, 1 when the node has none
OwnOpacity(attr) == IF attr = <<>> THEN Q(1) ELSE attr[1]

\* C18: the alpha of the fill colour of a node is the product of the node's
\* own opacity and fill-opacity attributes, the alpha of its stroke colour
\* the product of its own opacity and stroke-opacity, each attribute 1 when
\* absent; the opacity of an ancestor does not enter either product.
C18_OwnOpacityOnly ==
    \A i \in 1..Len(log) :
        LET node == tree[log[i].node]
        IN  /\ log[i].op = "set_source_fill" =>
                  log[i].vals = <<QMul(OwnOpacity(node.opacity),
                                       OwnOpacity(node.fill_opacity))>>
            /\ log[i].op = "set_source_stroke" =>
                  log[i].vals = <<QMul(OwnOpacity(node.opacity),
                                       OwnOpacity(node.stroke_opacity))>>

\* a path of opacity 1/2 was painted with the alpha 1/2, and its child, a
\* group with stroke-opacity 1/4 and no opacity, with the fill alpha 1 and
\* the stroke alpha 1/4
C18_Witness ==
    \E n \in Nodes : \E c \in Nodes :
        /\ tree[c].parent = n
        /\ tree[n].opacity = <<QNorm(1, 2)>>
        /\ tree[c].opacity = <<>> /\ tree[c].stroke_opacity = <<QNorm(1, 4)>>
        /\ \E i \in Idx("set_source_fill", n) : log[i].vals = <<QNorm(1, 2)>>
        /\ \E i \in Idx("set_source_fill", c) : log[i].vals = <<Q(1)>>
        /\ \E i \in Idx("set_source_stroke", c) : log[i].vals = <<QNorm(1, 4)>>

\* the backend calls of the single-page walk: draw(n, stroke_and_fill) on
\* the tree t with the matrix m, when no transform raises
RECURSIVE WalkCalls(_, _, _, _), WalkAll(_, _, _, _)
WalkCalls(t, n, stroke_and_fill, m) ==
    IF IsDefs(t[n])
    THEN [i \in 1..Len(ChildSeq(t, n)) |->
              Call("parse_def", ChildSeq(t, n)[i], 0, <<>>, "")]
    ELSE LET tr == RunTransform(t[n].transform, 1, m, n)
             node == [t[n] EXCEPT !.stroke_width = DefaultStrokeWidth(t[n])]
         IN  EnterCalls(n, node, tr.calls)
             \o PaintCalls(n, node, stroke_and_fill)
             \o WalkAll(t, Recursed(t, n), stroke_and_fill, tr.m)
             \o (IF Restores(t[n]) THEN <<Call("restore", n, 0, <<>>, "")>>
                 ELSE <<>>)

WalkAll(t, kids, stroke_and_fill, m) ==
    IF kids = <<>> THEN <<>>
    ELSE WalkCalls(t, Head(kids), ChildFlag(stroke_and_fill), m)
         \o WalkAll(t, Tail(kids), stroke_and_fill, m)

\* the calls of the log made for the nodes of the document
NodeCalls ==
    LET ForNode(e) == e.node > 0
    IN  SelectSeq(log, ForNode)

\* the calls of the log made for no node
PageOps == {log[i].op : i \in {j \in 1..Len(log) : log[j].node = 0}}

\* n is the root or a child of the root that is not a page container, or
\* is below such a child
OutsidePages(n) ==
    \/ n = 1
    \/ \E c \in Nodes :
          /\ tree[c].parent = 1 /\ tree[c].tag # "svg"
          /\ InSubtree(tree, n, c)

\* C19: in the multi-page variant, when the root has a page container among
\* its children, draw is never called on the root nor on a child of the
\* root that is not a page container: no save, transform, definition
\* registration or paint call is made for them or below them, only the
\* subtrees of the page containers are drawn; when the root has no page
\* container, the calls of a completed conversion are those of the
\* single-page walk of the whole tree, with no resize and no page break,
\* as they are for every completed conversion of a single-page variant.
C19_PagesOnly ==
    /\ (Multipage(kind) /\ HasPage) =>
          \A n \in Nodes :
              OutsidePages(n) => ~WasDrawn(n) /\ Entries(n) = {}
    /\ (~(Multipage(kind) /\ HasPage) /\ pc = "done") =>
          /\ NodeCalls = WalkCalls(tree, 1, TRUE, matrix)
          /\ PageOps \subseteq {"create_surface", "scale", "translate", "move_to",
                                "write_to_png", "finish"}
          /\ \A i \in 1..Len(log) : log[i].op \notin {"set_size", "show_page"}

\* a multi-page conversion is over for a root with a page and, next to it,
\* a group with a child: neither the root, the group nor its child was
\* drawn, the page was
C19_Witness ==
    /\ Multipage(kind) /\ HasPage /\ pc = "done"
    /\ \E p \in Nodes : \E g \in Nodes : \E c \in Nodes :
          /\ IsPage(p) /\ Count("save", p) = 1
          /\ tree[g].parent = 1 /\ tree[g].tag = "g" /\ tree[g].display # "none"
          /\ tree[c].parent = g /\ tree[c].tag = "path"
          /\ Entries(1) \cup Entries(g) \cup Entries(c) = {}

\* a multi-page conversion is over for a root without a page: the calls
\* for the nodes are those of the single-page walk, paint calls for a
\* grandchild of the root among them
C19_FallbackWitness ==
    /\ Multipage(kind) /\ ~HasPage /\ pc = "done"
    /\ NodeCalls = WalkCalls(tree, 1, TRUE, matrix)
    /\ \E c \in Nodes : tree[c].parent > 1 /\ Count("stroke", c) = 1

=============================================================================
